---------------------------- MODULE Spec2Model ----------------------------
(***************************************************************************)
(* Model of the liboqs-native addon: the Registry Backend (LibOQSAddon,    *)
(* liboqs_addon.cpp) and the Fixed Backend (LibOQSDirectAddon,             *)
(* liboqs_addon_direct.cpp).  Every exported method is one action.  The    *)
(* JavaScript caller owns a heap of Buffers; a method call reads Buffers   *)
(* by reference, works on local std::vector storage and hands back         *)
(* Napi::Buffer copies.  The primitive library (liboqs / PQClean) is the   *)
(* environment: an ideal KEM key generator and an ideal signature scheme   *)
(* whose status codes and randomness are chosen nondeterministically.      *)
(***************************************************************************)
EXTENDS Integers, Sequences, FiniteSets, TLC

(***************************************************************************)
(* Program constants (liboqs_addon_direct.cpp, lines 20-27).               *)
(***************************************************************************)
MLKEM768_PUBLICKEYBYTES == 1184
MLKEM768_SECRETKEYBYTES == 2400
MLKEM768_CIPHERTEXTBYTES == 1088
MLKEM768_SHAREDSECRETBYTES == 32
MLDSA65_PUBLICKEYBYTES == 1952
MLDSA65_SECRETKEYBYTES == 4000
MLDSA65_SIGNATURE_BYTES == 3309

OQS_KEM_alg_ml_kem_768 == "ML-KEM-768"
OQS_SIG_alg_ml_dsa_65 == "ML-DSA-65"

(***************************************************************************)
(* Bounds of the model.                                                    *)
(***************************************************************************)
\* number of distinct key pairs the key generator's randomness can yield
NumKeys == 2
\* longest message the caller signs (bytes)
MaxMsgLen == 2
\* how many bytes short of the maximum a reported signature length may be
\* (only in the specification whose primitive has variable-length signatures)
MaxShort == 1

(***************************************************************************)
(* The state: the caller's Buffers and what the last method call did.      *)
(***************************************************************************)
VARIABLES
    heap,       \* the caller's live Buffers: name -> bytes
    keys,       \* the key pair object the caller holds, JSUndefined before any
    sigProv,    \* how the caller's signature Buffer was made (history variable)
    call,       \* the last method call: backend, method, argument list
    result,     \* its return value
    pending,    \* the JavaScript exception it left pending, "" for none
    prim,       \* the calls it made into the primitive library, in order
    sigLens     \* the signature lengths the bound primitive reports

vars == <<heap, keys, sigProv, call, result, pending, prim, sigLens>>

(***************************************************************************)
(* Byte buffers.  A buffer of n bytes is [len |-> n, nz |-> S] where S     *)
(* holds <<i, v>> for every index i (1-based) whose byte v is non-zero;    *)
(* all other bytes are zero.  This is an exact representation of a byte    *)
(* string: Concat, Slice and At are those of the byte string.              *)
(***************************************************************************)
Zeros(n) == [len |-> n, nz |-> {}]

At(b, i) ==
    IF \E p \in b.nz : p[1] = i
    THEN (CHOOSE p \in b.nz : p[1] = i)[2]
    ELSE 0

SetByte(b, i, v) ==
    [len |-> b.len,
     nz  |-> {p \in b.nz : p[1] # i} \cup (IF v = 0 THEN {} ELSE {<<i, v>>})]

Concat(a, b) ==
    [len |-> a.len + b.len,
     nz  |-> a.nz \cup {<<p[1] + a.len, p[2]>> : p \in b.nz}]

\* bytes lo..hi (1-based, inclusive) of b
Slice(b, lo, hi) ==
    [len |-> IF hi >= lo THEN hi - lo + 1 ELSE 0,
     nz  |-> {<<p[1] - lo + 1, p[2]>> : p \in {q \in b.nz : q[1] >= lo /\ q[1] <= hi}}]

\* std::copy / the primitive's store: the bytes of src written into dst after
\* the first off bytes (off + src.len <= dst.len)
WriteAt(dst, off, src) ==
    [len |-> dst.len,
     nz  |-> {p \in dst.nz : p[1] <= off \/ p[1] > off + src.len}
             \cup {<<p[1] + off, p[2]>> : p \in src.nz}]

Overwrite(dst, src) == WriteAt(dst, 0, src)

FromSeq(s) ==
    [len |-> Len(s), nz |-> {<<i, s[i]>> : i \in {j \in 1..Len(s) : s[j] # 0}}]

\* std::vector<uint8_t> v(n): n value-initialised (zero) bytes
Vector(n) == Zeros(n)

(***************************************************************************)
(* The primitive library, as the addon sees it through its C interface.    *)
(* Key generation draws one of NumKeys key pairs; the signature of message *)
(* m under key k with reported length L is the byte string SigBytes(k,m,L),*)
(* and verification accepts exactly those byte strings.                    *)
(***************************************************************************)
Keys == 1..NumKeys

KemPublicKey(k) ==
    Overwrite(Zeros(MLKEM768_PUBLICKEYBYTES), FromSeq(<<k, 75>>))
KemSecretKey(k) ==
    Overwrite(Zeros(MLKEM768_SECRETKEYBYTES), FromSeq(<<k, 75, 83>>))
DsaPublicKey(k) ==
    Overwrite(Zeros(MLDSA65_PUBLICKEYBYTES), FromSeq(<<k, 68>>))
DsaSecretKey(k) ==
    Overwrite(Zeros(MLDSA65_SECRETKEYBYTES), FromSeq(<<k, 68, 83>>))

\* the signature bytes: key tag (twice), message length + 1, the message,
\* zero fill and a closing byte at the reported length L; altering one byte
\* of a signature never yields another signature
SigBytes(k, m, L) ==
    SetByte(Overwrite(Zeros(L), Concat(FromSeq(<<k, k, m.len + 1>>), m)), L, 255)

\* the key a secret-key / public-key pointer designates: the primitive reads
\* exactly the declared number of bytes from it; 0 stands for bytes that are
\* no generated key
KeyOfSecret(sk) ==
    IF \E k \in Keys : Slice(sk, 1, MLDSA65_SECRETKEYBYTES) = DsaSecretKey(k)
    THEN CHOOSE k \in Keys : Slice(sk, 1, MLDSA65_SECRETKEYBYTES) = DsaSecretKey(k)
    ELSE 0
KeyOfPublic(pk) ==
    IF \E k \in Keys : Slice(pk, 1, MLDSA65_PUBLICKEYBYTES) = DsaPublicKey(k)
    THEN CHOOSE k \in Keys : Slice(pk, 1, MLDSA65_PUBLICKEYBYTES) = DsaPublicKey(k)
    ELSE 0

\* keys the signing primitive may end up using: the designated one, or, when
\* the buffer behind the pointer is shorter than the primitive reads (an
\* out-of-bounds read), whatever the adjacent memory makes of it
SigningKeys(sk) ==
    IF sk.len >= MLDSA65_SECRETKEYBYTES THEN {KeyOfSecret(sk)} ELSE Keys \cup {0}

\* is sig a signature of m under key k, for a length in lens
Accepts(k, m, sig, lens) ==
    /\ k \in Keys
    /\ \E L \in lens : sig = SigBytes(k, m, L)

\* a keypair primitive of algorithm alg writing into the output buffers pk,
\* sk: the outcomes (status 0 is success)
KeypairOutcomes(pk, sk, alg) ==
    LET PkOf(k) == IF alg = OQS_KEM_alg_ml_kem_768 THEN KemPublicKey(k) ELSE DsaPublicKey(k)
        SkOf(k) == IF alg = OQS_KEM_alg_ml_kem_768 THEN KemSecretKey(k) ELSE DsaSecretKey(k)
    IN  {[status |-> 0, pk |-> Overwrite(pk, PkOf(k)), sk |-> Overwrite(sk, SkOf(k))] : k \in Keys}
        \cup {[status |-> -1, pk |-> Overwrite(pk, PkOf(k)), sk |-> sk] : k \in Keys}

\* OQS_KEM_keypair(kem, public_key, secret_key)
OQS_KEM_keypair(pk, sk) == KeypairOutcomes(pk, sk, OQS_KEM_alg_ml_kem_768)
\* OQS_SIG_keypair(sig, public_key, secret_key)
OQS_SIG_keypair(pk, sk) == KeypairOutcomes(pk, sk, OQS_SIG_alg_ml_dsa_65)
PQCLEAN_MLKEM768_CLEAN_crypto_kem_keypair(pk, sk) ==
    KeypairOutcomes(pk, sk, OQS_KEM_alg_ml_kem_768)
PQCLEAN_MLDSA65_CLEAN_crypto_sign_keypair(pk, sk) ==
    KeypairOutcomes(pk, sk, OQS_SIG_alg_ml_dsa_65)

\* OQS_SIG_sign(sig, signature, &signature_len, message, message_len, secret_key)
OQS_SIG_sign(signature, m, sk, lens) ==
    {[status |-> 0, signature |-> Overwrite(signature, SigBytes(k, m, L)),
      signature_len |-> L] : k \in SigningKeys(sk), L \in lens}
    \cup {[status |-> -1, signature |-> signature, signature_len |-> 0]}

\* OQS_SIG_verify(sig, message, message_len, signature, signature_len, public_key)
OQS_SIG_verify(m, signature, pk, lens) ==
    IF pk.len >= MLDSA65_PUBLICKEYBYTES
    THEN {IF Accepts(KeyOfPublic(pk), m, signature, lens) THEN 0 ELSE -1}
    ELSE {0, -1}

\* PQCLEAN_MLDSA65_CLEAN_crypto_sign(sm, &smlen, m, mlen, sk): sm = signature || m
PQCLEAN_MLDSA65_CLEAN_crypto_sign(sm, m, sk, lens) ==
    {[result |-> 0, sm |-> Overwrite(sm, Concat(SigBytes(k, m, L), m)),
      smlen |-> L + m.len] : k \in SigningKeys(sk), L \in lens}
    \cup {[result |-> -1, sm |-> sm, smlen |-> 0]}

\* PQCLEAN_MLDSA65_CLEAN_crypto_sign_open(m, &mlen, sm, smlen, pk)
PQCLEAN_MLDSA65_CLEAN_crypto_sign_open(sm, pk, lens) ==
    IF pk.len >= MLDSA65_PUBLICKEYBYTES
    THEN {IF \E L \in lens :
                /\ sm.len >= L
                /\ Accepts(KeyOfPublic(pk), Slice(sm, L + 1, sm.len), Slice(sm, 1, L), {L})
          THEN 0 ELSE -1}
    ELSE {0, -1}

\* the algorithm object OQS_KEM_new / OQS_SIG_new returns for the name the
\* addon passes (the lengths are those of the algorithm)
OQS_KEM_new(alg) ==
    [method_name |-> alg,
     length_public_key |-> MLKEM768_PUBLICKEYBYTES,
     length_secret_key |-> MLKEM768_SECRETKEYBYTES,
     length_ciphertext |-> MLKEM768_CIPHERTEXTBYTES,
     length_shared_secret |-> MLKEM768_SHAREDSECRETBYTES]
OQS_SIG_new(alg) ==
    [method_name |-> alg,
     length_public_key |-> MLDSA65_PUBLICKEYBYTES,
     length_secret_key |-> MLDSA65_SECRETKEYBYTES,
     length_signature |-> MLDSA65_SIGNATURE_BYTES]

\* the library's identifier tables (OQS_KEM_alg_identifier(i), i < OQS_KEM_algs_length):
\* liboqs registers more algorithms than the two the addon uses
OQS_KEM_algs == <<"Kyber768", "ML-KEM-768">>
OQS_SIG_algs == <<"Dilithium3", "ML-DSA-65">>
OQS_VERSION_TEXT == "0.10.0"

(***************************************************************************)
(* JavaScript values and the caller's heap of Buffers.  heap maps the      *)
(* names of the live Buffers to their bytes.                               *)
(***************************************************************************)
\* a Buffer the caller holds is named after the caller's variable that holds
\* it; the Buffers a call has just created are new1 and new2 until the caller
\* stores them
Slots == {"message", "signature", "publicKey", "secretKey"}
Fresh == <<"new1", "new2">>

JSNull == [kind |-> "null"]
JSUndefined == [kind |-> "undefined"]
JSBoolean(v) == [kind |-> "boolean", val |-> v]
JSString(v) == [kind |-> "string", str |-> v]
JSBuffer(id) == [kind |-> "buffer", id |-> id]
IsBuffer(v) == v.kind = "buffer"

NewId(h) == IF Fresh[1] \in DOMAIN h THEN Fresh[2] ELSE Fresh[1]

\* Napi::Buffer<uint8_t>::Copy(env, data, size): a new Buffer holding a copy
\* of the first size bytes of data
BufferCopy(h, data, size) ==
    [heap |-> [i \in DOMAIN h \cup {NewId(h)} |->
                  IF i = NewId(h) THEN Slice(data, 1, size) ELSE h[i]],
     value |-> JSBuffer(NewId(h))]

\* what a method call leaves behind: its return value, the JavaScript
\* exception it left pending ("" for none), the heap, and the calls it made
\* into the primitive library, in order
Outcome(ret, exc, h, log) == [ret |-> ret, exc |-> exc, heap |-> h, prim |-> log]

\* Napi::Error::New(env, msg).ThrowAsJavaScriptException(); return env.Null();
Throw(msg, h, log) == Outcome(JSNull, msg, h, log)

P(fn) == [fn |-> fn]

\* if (status != OQS_SUCCESS) / if (result != 0)
IsFailure_Never(status) == FALSE
IsFailure(status) == status # 0

(***************************************************************************)
(* Registry Backend: LibOQSAddon (liboqs_addon.cpp).  Each method is the   *)
(* set of outcomes it can have on heap h with argument list info.          *)
(***************************************************************************)
KemKeyPairObject(pk, sk, public_len, secret_len, ct_len, ss_len) ==
    [kind |-> "object", publicKey |-> pk, secretKey |-> sk,
     algorithm |-> "ML-KEM-768",
     publicKeyLength |-> public_len, secretKeyLength |-> secret_len,
     ciphertextLength |-> ct_len, sharedSecretLength |-> ss_len]

SigKeyPairObject_Swapped(pk, sk, public_len, secret_len, sig_len) ==
    [kind |-> "object", publicKey |-> pk, secretKey |-> sk,
     algorithm |-> "ML-DSA-65",
     publicKeyLength |-> secret_len, secretKeyLength |-> public_len,
     maxSignatureLength |-> sig_len]

SigKeyPairObject(pk, sk, public_len, secret_len, sig_len) ==
    [kind |-> "object", publicKey |-> pk, secretKey |-> sk,
     algorithm |-> "ML-DSA-65",
     publicKeyLength |-> public_len, secretKeyLength |-> secret_len,
     maxSignatureLength |-> sig_len]

LibOQSAddon_GenerateKEMKeyPair(h, info) ==
    LET kem == OQS_KEM_new(OQS_KEM_alg_ml_kem_768)
        public_key == Vector(kem.length_public_key)
        secret_key == Vector(kem.length_secret_key)
        new == [fn |-> "OQS_KEM_new", null |-> FALSE]
        Done(r) ==
            LET invoked == [fn |-> "OQS_KEM_keypair", status |-> r.status]
            IN  IF IsFailure(r.status)
                THEN Throw("Failed to generate ML-KEM-768 key pair", h,
                           <<new, invoked, P("OQS_KEM_free")>>)
                ELSE LET c1 == BufferCopy(h, r.pk, r.pk.len)
                         c2 == BufferCopy(c1.heap, r.sk, r.sk.len)
                     IN  Outcome(KemKeyPairObject(c1.value, c2.value,
                                     kem.length_public_key, kem.length_secret_key,
                                     kem.length_ciphertext, kem.length_shared_secret),
                                 "", c2.heap, <<new, invoked, P("OQS_KEM_free")>>)
    IN  {Throw("Failed to create ML-KEM-768 instance", h,
               <<[fn |-> "OQS_KEM_new", null |-> TRUE]>>)}
        \cup {Throw("Exception in GenerateKEMKeyPair: std::bad_alloc", h, <<new>>)}
        \cup {Done(r) : r \in OQS_KEM_keypair(public_key, secret_key)}

LibOQSAddon_GenerateSignatureKeyPair(h, info) ==
    LET sig == OQS_SIG_new(OQS_SIG_alg_ml_dsa_65)
        public_key == Vector(sig.length_public_key)
        secret_key == Vector(sig.length_secret_key)
        new == [fn |-> "OQS_SIG_new", null |-> FALSE]
        Done(r) ==
            LET invoked == [fn |-> "OQS_SIG_keypair", status |-> r.status]
            IN  IF IsFailure(r.status)
                THEN Throw("Failed to generate ML-DSA-65 key pair", h,
                           <<new, invoked, P("OQS_SIG_free")>>)
                ELSE LET c1 == BufferCopy(h, r.pk, r.pk.len)
                         c2 == BufferCopy(c1.heap, r.sk, r.sk.len)
                     IN  Outcome(SigKeyPairObject(c1.value, c2.value,
                                     sig.length_public_key, sig.length_secret_key,
                                     sig.length_signature),
                                 "", c2.heap, <<new, invoked, P("OQS_SIG_free")>>)
    IN  {Throw("Failed to create ML-DSA-65 instance", h,
               <<[fn |-> "OQS_SIG_new", null |-> TRUE]>>)}
        \cup {Throw("Exception in GenerateSignatureKeyPair: std::bad_alloc", h, <<new>>)}
        \cup {Done(r) : r \in OQS_SIG_keypair(public_key, secret_key)}

\* signature.resize(signature_length); return Buffer::Copy(signature)
LibOQSAddon_SignReturn_InPlace(h, info, signature, signature_length, log) ==
    Outcome(info[1], "",
            [h EXCEPT ![info[1].id] = Slice(signature, 1, signature_length)], log)

LibOQSAddon_SignReturn(h, info, signature, signature_length, log) ==
    LET resized == Slice(signature, 1, signature_length)
        c == BufferCopy(h, resized, resized.len)
    IN  Outcome(c.value, "", c.heap, log)

LibOQSAddon_SignData(h, info, lens) ==
    IF Len(info) < 2 \/ ~IsBuffer(info[1]) \/ ~IsBuffer(info[2])
    THEN {Throw("Expected (data: Buffer, secretKey: Buffer)", h, <<>>)}
    ELSE
    LET data_buffer == h[info[1].id]
        secret_key_buffer == h[info[2].id]
        sig == OQS_SIG_new(OQS_SIG_alg_ml_dsa_65)
        signature == Vector(sig.length_signature)
        new == [fn |-> "OQS_SIG_new", null |-> FALSE]
        Done(r) ==
            LET invoked == [fn |-> "OQS_SIG_sign", status |-> r.status,
                         secret_key_len |-> secret_key_buffer.len,
                         signature_len |-> r.signature_len]
            IN  IF IsFailure(r.status)
                THEN Throw("Failed to sign data with ML-DSA-65", h,
                           <<new, invoked, P("OQS_SIG_free")>>)
                ELSE LibOQSAddon_SignReturn(h, info, r.signature, r.signature_len,
                                            <<new, invoked, P("OQS_SIG_free")>>)
    IN  {Throw("Failed to create ML-DSA-65 instance", h,
               <<[fn |-> "OQS_SIG_new", null |-> TRUE]>>)}
        \cup {Throw("Exception in SignData: std::bad_alloc", h, <<new>>)}
        \cup {Done(r) : r \in OQS_SIG_sign(signature, data_buffer, secret_key_buffer, lens)}

\* return Napi::Boolean::New(env, status == OQS_SUCCESS)
LibOQSAddon_VerifyReturn_Throws(h, status, log) ==
    IF status = 0 THEN Outcome(JSBoolean(TRUE), "", h, log)
    ELSE Throw("Signature verification failed", h, log)

LibOQSAddon_VerifyReturn_Cached(h, status, log) ==
    Outcome(JSBoolean(status = 0 \/ ("signature" \in DOMAIN h /\ h["signature"] = sigProv.sig)),
            "", h, log)

LibOQSAddon_VerifyReturn(h, status, log) ==
    Outcome(JSBoolean(status = 0), "", h, log)

LibOQSAddon_VerifySignature(h, info, lens) ==
    IF Len(info) < 3 \/ ~IsBuffer(info[1]) \/ ~IsBuffer(info[2]) \/ ~IsBuffer(info[3])
    THEN {Throw("Expected (data: Buffer, signature: Buffer, publicKey: Buffer)", h, <<>>)}
    ELSE
    LET data_buffer == h[info[1].id]
        signature_buffer == h[info[2].id]
        public_key_buffer == h[info[3].id]
        new == [fn |-> "OQS_SIG_new", null |-> FALSE]
        Done(status) ==
            LibOQSAddon_VerifyReturn(h, status,
                    <<new,
                      [fn |-> "OQS_SIG_verify", status |-> status,
                       public_key_len |-> public_key_buffer.len],
                      P("OQS_SIG_free")>>)
    IN  {Throw("Failed to create ML-DSA-65 instance", h,
               <<[fn |-> "OQS_SIG_new", null |-> TRUE]>>)}
        \cup {Done(status) :
                status \in OQS_SIG_verify(data_buffer, signature_buffer, public_key_buffer, lens)}

LibOQSAddon_GetAvailableAlgorithms(h, info) ==
    {Outcome([kind |-> "object",
              kems |-> [i \in 1..Len(OQS_KEM_algs) |-> OQS_KEM_algs[i]],
              signatures |-> [i \in 1..Len(OQS_SIG_algs) |-> OQS_SIG_algs[i]]],
             "", h, <<>>)}

LibOQSAddon_GetLibOQSVersion(h, info) ==
    {Outcome(JSString(OQS_VERSION_TEXT), "", h, <<>>)}

LibOQSAddon_KEMEncapsulate(h, info) ==
    {Throw("KEMEncapsulate not yet implemented", h, <<>>)}

LibOQSAddon_KEMDecapsulate(h, info) ==
    {Throw("KEMDecapsulate not yet implemented", h, <<>>)}

(***************************************************************************)
(* Fixed Backend: LibOQSDirectAddon (liboqs_addon_direct.cpp).             *)
(***************************************************************************)
LibOQSDirectAddon_GenerateKEMKeyPair(h, info) ==
    LET public_key == Vector(MLKEM768_PUBLICKEYBYTES)
        secret_key == Vector(MLKEM768_SECRETKEYBYTES)
        Done(r) ==
            LET invoked == [fn |-> "PQCLEAN_MLKEM768_CLEAN_crypto_kem_keypair",
                         status |-> r.status]
            IN  IF IsFailure(r.status)
                THEN Throw("Failed to generate ML-KEM-768 key pair", h, <<invoked>>)
                ELSE LET c1 == BufferCopy(h, r.pk, r.pk.len)
                         c2 == BufferCopy(c1.heap, r.sk, r.sk.len)
                     IN  Outcome(KemKeyPairObject(c1.value, c2.value,
                                     MLKEM768_PUBLICKEYBYTES, MLKEM768_SECRETKEYBYTES,
                                     MLKEM768_CIPHERTEXTBYTES, MLKEM768_SHAREDSECRETBYTES),
                                 "", c2.heap, <<invoked>>)
    IN  {Throw("Exception in GenerateKEMKeyPair: std::bad_alloc", h, <<>>)}
        \cup {Done(r) : r \in PQCLEAN_MLKEM768_CLEAN_crypto_kem_keypair(public_key, secret_key)}

LibOQSDirectAddon_GenerateSignatureKeyPair(h, info) ==
    LET public_key == Vector(MLDSA65_PUBLICKEYBYTES)
        secret_key == Vector(MLDSA65_SECRETKEYBYTES)
        Done(r) ==
            LET invoked == [fn |-> "PQCLEAN_MLDSA65_CLEAN_crypto_sign_keypair",
                         status |-> r.status]
            IN  IF IsFailure(r.status)
                THEN Throw("Failed to generate ML-DSA-65 key pair", h, <<invoked>>)
                ELSE LET c1 == BufferCopy(h, r.pk, r.pk.len)
                         c2 == BufferCopy(c1.heap, r.sk, r.sk.len)
                     IN  Outcome(SigKeyPairObject(c1.value, c2.value,
                                     MLDSA65_PUBLICKEYBYTES, MLDSA65_SECRETKEYBYTES,
                                     MLDSA65_SIGNATURE_BYTES),
                                 "", c2.heap, <<invoked>>)
    IN  {Throw("Exception in GenerateSignatureKeyPair: std::bad_alloc", h, <<>>)}
        \cup {Done(r) : r \in PQCLEAN_MLDSA65_CLEAN_crypto_sign_keypair(public_key, secret_key)}

LibOQSDirectAddon_SignData(h, info, lens) ==
    IF Len(info) < 2 \/ ~IsBuffer(info[1]) \/ ~IsBuffer(info[2])
    THEN {Throw("Expected (data: Buffer, secretKey: Buffer)", h, <<>>)}
    ELSE
    LET data_buffer == h[info[1].id]
        secret_key_buffer == h[info[2].id]
        signed_message == Vector(data_buffer.len + MLDSA65_SIGNATURE_BYTES)
        Done(r) ==
            LET invoked == [fn |-> "PQCLEAN_MLDSA65_CLEAN_crypto_sign", status |-> r.result,
                         secret_key_len |-> secret_key_buffer.len,
                         signature_len |-> IF r.result = 0 THEN r.smlen - data_buffer.len ELSE 0]
            IN  IF IsFailure(r.result)
                THEN Throw("Failed to sign data with ML-DSA-65", h, <<invoked>>)
                ELSE LET signature == Slice(r.sm, 1, MLDSA65_SIGNATURE_BYTES)
                         c == BufferCopy(h, signature, signature.len)
                     IN  Outcome(c.value, "", c.heap, <<invoked>>)
    IN  {Throw("Exception in SignData: std::bad_alloc", h, <<>>)}
        \cup {Done(r) : r \in PQCLEAN_MLDSA65_CLEAN_crypto_sign(
                                  signed_message, data_buffer, secret_key_buffer, lens)}

\* return Napi::Boolean::New(env, result == 0)
LibOQSDirectAddon_VerifyReturn(h, rc, log) ==
    Outcome(JSBoolean(rc = 0), "", h, log)

\* reconstruct the signed message (signature + data)
LibOQSDirectAddon_SignedMessage_Swapped(signature_buffer, data_buffer) ==
    WriteAt(WriteAt(Vector(signature_buffer.len + data_buffer.len), 0, data_buffer),
            data_buffer.len, signature_buffer)

LibOQSDirectAddon_SignedMessage(signature_buffer, data_buffer) ==
    WriteAt(WriteAt(Vector(signature_buffer.len + data_buffer.len), 0, signature_buffer),
            signature_buffer.len, data_buffer)

LibOQSDirectAddon_VerifySignature(h, info, lens) ==
    IF Len(info) < 3 \/ ~IsBuffer(info[1]) \/ ~IsBuffer(info[2]) \/ ~IsBuffer(info[3])
    THEN {Throw("Expected (data: Buffer, signature: Buffer, publicKey: Buffer)", h, <<>>)}
    ELSE
    LET data_buffer == h[info[1].id]
        signature_buffer == h[info[2].id]
        public_key_buffer == h[info[3].id]
        signed_message == LibOQSDirectAddon_SignedMessage(signature_buffer, data_buffer)
        Done(rc) ==
            LibOQSDirectAddon_VerifyReturn(h, rc,
                    <<[fn |-> "PQCLEAN_MLDSA65_CLEAN_crypto_sign_open", status |-> rc,
                       public_key_len |-> public_key_buffer.len]>>)
    IN  {Throw("Exception in VerifySignature: std::bad_alloc", h, <<>>)}
        \cup {Done(rc) :
                rc \in PQCLEAN_MLDSA65_CLEAN_crypto_sign_open(
                               signed_message, public_key_buffer, lens)}

LibOQSDirectAddon_KEMEncapsulate(h, info) ==
    {Throw("KEMEncapsulate not yet implemented", h, <<>>)}

LibOQSDirectAddon_KEMDecapsulate_Implemented(h, info) ==
    IF Len(info) < 2 \/ ~IsBuffer(info[1]) \/ ~IsBuffer(info[2])
    THEN {Throw("KEMDecapsulate not yet implemented", h, <<>>)}
    ELSE LET c == BufferCopy(h, Vector(MLKEM768_SHAREDSECRETBYTES), MLKEM768_SHAREDSECRETBYTES)
         IN  {Outcome(c.value, "", c.heap,
                      <<[fn |-> "PQCLEAN_MLKEM768_CLEAN_crypto_kem_dec", status |-> 0]>>)}

LibOQSDirectAddon_KEMDecapsulate(h, info) ==
    {Throw("KEMDecapsulate not yet implemented", h, <<>>)}

LibOQSDirectAddon_GetVersionInfo(h, info) ==
    {Outcome([kind |-> "object", library |-> "libOQS-direct", version |-> "1.0.0-direct",
              algorithms |-> "ML-KEM-768, ML-DSA-65", mode |-> "DIRECT_PQCLEAN"],
             "", h, <<>>)}

(***************************************************************************)
(* Construction: new LibOQSAddon(...) / new LibOQSDirectAddon(...).        *)
(* Neither class has data members, and neither constructor reads info.     *)
(***************************************************************************)
JSInstance(cls) == [kind |-> "instance", cls |-> cls]

\* LibOQSAddon::LibOQSAddon(info) { OQS_init(); }
LibOQSAddon_LibOQSAddon(h, info) ==
    {Outcome(JSInstance("LibOQSAddon"), "", h, <<P("OQS_init")>>)}

\* LibOQSDirectAddon::LibOQSDirectAddon(info) { }
LibOQSDirectAddon_LibOQSDirectAddon(h, info) ==
    {Outcome(JSInstance("LibOQSDirectAddon"), "", h, <<>>)}

Backends == {"registry", "direct"}

\* the algorithm ids a caller may name
AlgorithmIds ==
    {OQS_KEM_algs[i] : i \in DOMAIN OQS_KEM_algs} \cup {OQS_SIG_algs[i] : i \in DOMAIN OQS_SIG_algs}
NoProv == [msg |-> Zeros(0), pk |-> Zeros(0), sig |-> Zeros(0)]

\* the messages the caller signs and verifies
MsgBytes == {0, 1}
RECURSIVE SeqsUpTo(_, _)
SeqsUpTo(S, n) ==
    IF n = 0 THEN {<<>>}
    ELSE SeqsUpTo(S, n - 1) \cup
         {Append(s, x) : s \in {t \in SeqsUpTo(S, n - 1) : Len(t) = n - 1}, x \in S}
Messages == {FromSeq(s) : s \in SeqsUpTo(MsgBytes, MaxMsgLen)}

\* a byte of b altered at index i
Flip(b, i) == SetByte(b, i, IF At(b, i) % 2 = 0 THEN At(b, i) + 1 ELSE At(b, i) - 1)

\* the caller stores the Buffers of a returned value: a Buffer under the
\* name slot, a key pair object's Buffers as publicKey and secretKey
Stored(v, slot) ==
    IF v.kind = "buffer" THEN JSBuffer(slot)
    ELSE IF v.kind = "object" /\ "publicKey" \in DOMAIN v
         THEN [v EXCEPT !.publicKey = JSBuffer("publicKey"),
                        !.secretKey = JSBuffer("secretKey")]
         ELSE v

StoredHeap(o, h, slot) ==
    IF o.ret.kind = "buffer"
    THEN [i \in DOMAIN h \cup {slot} |-> IF i = slot THEN o.heap[o.ret.id] ELSE o.heap[i]]
    ELSE IF o.ret.kind = "object" /\ "publicKey" \in DOMAIN o.ret
         THEN [i \in DOMAIN h \cup {"publicKey", "secretKey"} |->
                  IF i = "publicKey" THEN o.heap[o.ret.publicKey.id]
                  ELSE IF i = "secretKey" THEN o.heap[o.ret.secretKey.id]
                  ELSE o.heap[i]]
         ELSE [i \in DOMAIN h |-> o.heap[i]]

NoCall == [backend |-> "none", op |-> "none", info |-> <<>>]

InitWith(lens) ==
    /\ heap = [i \in {"message"} |-> Zeros(0)]
    /\ keys = JSUndefined
    /\ sigProv = NoProv
    /\ call = NoCall
    /\ result = JSUndefined
    /\ pending = ""
    /\ prim = <<>>
    /\ sigLens = lens

\* both addons constructed; ML-DSA-65 signatures have one length
Init == InitWith({MLDSA65_SIGNATURE_BYTES})

\* as Init, for a signature primitive that may report a shorter length
InitVarLen == InitWith((MLDSA65_SIGNATURE_BYTES - MaxShort)..MLDSA65_SIGNATURE_BYTES)

\* the method call (b, op, info) ended as o, and the caller stored what it
\* returned (a Buffer under the name slot)
Returned(b, op, info, o, slot) ==
    /\ call' = [backend |-> b, op |-> op, info |-> info]
    /\ result' = Stored(o.ret, slot)
    /\ pending' = o.exc
    /\ prim' = o.prim
    /\ heap' = StoredHeap(o, heap, slot)
    /\ keys' = IF o.ret.kind = "object" /\ "publicKey" \in DOMAIN o.ret
               THEN Stored(o.ret, slot) ELSE keys
    /\ UNCHANGED sigLens

\* the outcomes of method op of backend b called with info
Handler(b, op, info) ==
    CASE op = "generateKEMKeyPair" ->
           IF b = "registry" THEN LibOQSAddon_GenerateKEMKeyPair(heap, info)
                             ELSE LibOQSDirectAddon_GenerateKEMKeyPair(heap, info)
      [] op = "generateSignatureKeyPair" ->
           IF b = "registry" THEN LibOQSAddon_GenerateSignatureKeyPair(heap, info)
                             ELSE LibOQSDirectAddon_GenerateSignatureKeyPair(heap, info)
      [] op = "signData" ->
           IF b = "registry" THEN LibOQSAddon_SignData(heap, info, sigLens)
                             ELSE LibOQSDirectAddon_SignData(heap, info, sigLens)
      [] op = "verifySignature" ->
           IF b = "registry" THEN LibOQSAddon_VerifySignature(heap, info, sigLens)
                             ELSE LibOQSDirectAddon_VerifySignature(heap, info, sigLens)
      [] op = "kemEncapsulate" ->
           IF b = "registry" THEN LibOQSAddon_KEMEncapsulate(heap, info)
                             ELSE LibOQSDirectAddon_KEMEncapsulate(heap, info)
      [] op = "kemDecapsulate" ->
           IF b = "registry" THEN LibOQSAddon_KEMDecapsulate(heap, info)
                             ELSE LibOQSDirectAddon_KEMDecapsulate(heap, info)
      [] op = "new" ->
           IF b = "registry" THEN LibOQSAddon_LibOQSAddon(heap, info)
                             ELSE LibOQSDirectAddon_LibOQSDirectAddon(heap, info)
      [] op = "getAvailableAlgorithms" -> LibOQSAddon_GetAvailableAlgorithms(heap, info)
      [] op = "getLibOQSVersion" -> LibOQSAddon_GetLibOQSVersion(heap, info)
      [] op = "getVersionInfo" -> LibOQSDirectAddon_GetVersionInfo(heap, info)

\* the methods each addon exports (its DefineClass list)
Methods(b) ==
    {"generateKEMKeyPair", "kemEncapsulate", "kemDecapsulate",
     "generateSignatureKeyPair", "signData", "verifySignature"}
    \cup (IF b = "registry" THEN {"getAvailableAlgorithms", "getLibOQSVersion"}
                            ELSE {"getVersionInfo"})

\* the caller's Buffers among the names S
Held(S) == {JSBuffer(i) : i \in S \cap DOMAIN heap}

HoldsKeys(alg) == keys.kind = "object" /\ keys.algorithm = alg

\* the argument lists the caller passes to method op
Args(op) ==
    CASE op = "signData" ->
           {<<JSBuffer("message"), k>> :
               k \in IF HoldsKeys("ML-DSA-65") THEN Held({"secretKey"}) ELSE {}}
           \cup {<<JSBuffer("message")>>}
      [] op = "verifySignature" ->
           {<<JSBuffer("message"), s, k>> :
               s \in Held({"signature"}), k \in Held({"publicKey"})}
           \cup {<<JSBuffer("message"), JSBuffer("message")>>}
      [] op = "kemEncapsulate" -> {<<k>> : k \in Held({"publicKey"})} \cup {<<>>}
      [] op = "kemDecapsulate" ->
           {<<k, JSBuffer("message")>> : k \in Held({"secretKey"})} \cup {<<>>}
      [] op = "new" -> {<<>>} \cup {<<JSString(a)>> : a \in AlgorithmIds}
      [] OTHER -> {<<>>}

\* a method call whose returned Buffers, if any, the caller stores
Call(b, op) ==
    /\ call = NoCall
    /\ \E info \in Args(op) :
       \E o \in Handler(b, op, info) :
           /\ Returned(b, op, info, o, "signature")
           /\ sigProv' = IF op = "signData" /\ IsBuffer(o.ret)
                         THEN [msg |-> heap["message"], pk |-> heap["publicKey"],
                               sig |-> o.heap[o.ret.id]]
                         ELSE sigProv

\* another instance of the addon is constructed, with or without an algorithm id
Construct(b) == Call(b, "new")
GenerateKEMKeyPair(b) == Call(b, "generateKEMKeyPair")
GenerateSignatureKeyPair(b) == Call(b, "generateSignatureKeyPair")
SignData(b) == Call(b, "signData")
VerifySignature(b) == Call(b, "verifySignature")
KEMEncapsulate(b) == Call(b, "kemEncapsulate")
KEMDecapsulate(b) == Call(b, "kemDecapsulate")
GetAvailableAlgorithms == Call("registry", "getAvailableAlgorithms")
GetLibOQSVersion == Call("registry", "getLibOQSVersion")
GetVersionInfo == Call("direct", "getVersionInfo")

\* the caller takes the outcome of the call that has returned, and goes on
TakeResult ==
    /\ call # NoCall
    /\ call' = NoCall
    /\ result' = JSUndefined
    /\ pending' = ""
    /\ prim' = <<>>
    /\ UNCHANGED <<heap, keys, sigProv, sigLens>>

\* a step of the caller's own between two method calls
CallerDid ==
    /\ call = NoCall
    /\ UNCHANGED <<keys, sigProv, call, result, pending, prim, sigLens>>

\* the caller puts another message in its message Buffer variable
SetMessage ==
    /\ CallerDid
    /\ \E m \in Messages :
           /\ m # heap["message"]
           /\ heap' = [heap EXCEPT !["message"] = m]

\* the caller alters one byte (the first or the last) of the signature it got
TamperSignature ==
    /\ CallerDid
    /\ "signature" \in DOMAIN heap
    /\ heap["signature"] = sigProv.sig
    /\ \E i \in {1, heap["signature"].len} :
           heap' = [heap EXCEPT !["signature"] = Flip(@, i)]

Next ==
    \/ \E b \in Backends : Construct(b)
    \/ \E b \in Backends : GenerateKEMKeyPair(b)
    \/ \E b \in Backends : GenerateSignatureKeyPair(b)
    \/ \E b \in Backends : SignData(b)
    \/ \E b \in Backends : VerifySignature(b)
    \/ \E b \in Backends : KEMEncapsulate(b)
    \/ \E b \in Backends : KEMDecapsulate(b)
    \/ GetAvailableAlgorithms
    \/ GetLibOQSVersion
    \/ GetVersionInfo
    \/ TakeResult
    \/ SetMessage
    \/ TamperSignature

Spec == Init /\ [][Next]_vars

SpecVarLen == InitVarLen /\ [][Next]_vars

(***************************************************************************)
(* Properties.  call, result, pending and prim describe the method call    *)
(* that has just returned; heap holds its arguments as it left them.       *)
(***************************************************************************)
\* the bytes of argument i of the call that has just returned
Arg(i) == heap[call.info[i].id]

\* the entries of prim for the functions fns
PrimCalls(fns) == {prim[i] : i \in {j \in DOMAIN prim : prim[j].fn \in fns}}

VerifyFns == {"OQS_SIG_verify", "PQCLEAN_MLDSA65_CLEAN_crypto_sign_open"}
SignFns == {"OQS_SIG_sign", "PQCLEAN_MLDSA65_CLEAN_crypto_sign"}
KeypairFns == {"OQS_KEM_keypair", "OQS_SIG_keypair",
               "PQCLEAN_MLKEM768_CLEAN_crypto_kem_keypair",
               "PQCLEAN_MLDSA65_CLEAN_crypto_sign_keypair"}

\* C1: for a key pair returned by generateKEMKeyPair, in either backend,
\* kemEncapsulate(publicKey) succeeds and returns {ciphertext, sharedSecret},
\* and kemDecapsulate(secretKey, ciphertext) returns the shared secret as a
\* Buffer of sharedSecretLen bytes.
C1_KemRoundTrip ==
    /\ (/\ call.op = "kemEncapsulate"
        /\ HoldsKeys("ML-KEM-768")
        /\ call.info = <<JSBuffer("publicKey")>>)
       => (/\ pending = ""
           /\ result.kind = "object"
           /\ {"ciphertext", "sharedSecret"} \subseteq DOMAIN result)
    /\ (/\ call.op = "kemDecapsulate"
        /\ HoldsKeys("ML-KEM-768")
        /\ Len(call.info) = 2)
       => (/\ pending = ""
           /\ result.kind = "buffer")

\* C2: in each backend, verifySignature(message, signData(message, secretKey),
\* publicKey) returns true for a generated key pair and any message, the empty
\* one included, whenever the verify primitive is reached.
C2_SignatureRoundTrip ==
    (/\ call.op = "verifySignature"
     /\ Len(call.info) = 3
     /\ PrimCalls(VerifyFns) # {}
     /\ sigProv # NoProv
     /\ Arg(1) = sigProv.msg
     /\ Arg(2) = sigProv.sig
     /\ Arg(3) = sigProv.pk)
    => (pending = "" /\ result = JSBoolean(TRUE))

\* the empty message signed and verified by the Fixed Backend
C2_Witness ==
    /\ call.op = "verifySignature"
    /\ call.backend = "direct"
    /\ Len(call.info) = 3
    /\ sigProv # NoProv
    /\ Arg(1) = sigProv.msg /\ Arg(1).len = 0
    /\ Arg(2) = sigProv.sig
    /\ Arg(3) = sigProv.pk
    /\ result = JSBoolean(TRUE)

\* C3: in both backends the Buffer signData returns has exactly the signature
\* length the primitive reported, for every reported length up to the maximum.
C3_SignatureExactLength ==
    (call.op = "signData" /\ result.kind = "buffer")
    => \A c \in PrimCalls(SignFns) : heap[result.id].len = c.signature_len

\* C4: verifySignature with a public key Buffer of the wrong length fails with
\* InvalidKeyLength, and the verify primitive is never handed such a Buffer;
\* kemEncapsulate with a wrong-length key fails with InvalidKeyLength too.
C4_LengthValidation ==
    /\ \A c \in PrimCalls(VerifyFns) : c.public_key_len = MLDSA65_PUBLICKEYBYTES
    /\ (/\ call.op = "verifySignature"
        /\ Len(call.info) = 3
        /\ Arg(3).len # MLDSA65_PUBLICKEYBYTES)
       => pending = "InvalidKeyLength"
    /\ (/\ call.op = "kemEncapsulate"
        /\ Len(call.info) = 1
        /\ Arg(1).len # MLKEM768_PUBLICKEYBYTES)
       => pending = "InvalidKeyLength"

\* the verify primitive's answers for the arguments of the call that has just
\* returned, as backend b hands them over
PrimitiveVerdicts(b) ==
    IF b = "registry"
    THEN OQS_SIG_verify(Arg(1), Arg(2), Arg(3), sigLens)
    ELSE PQCLEAN_MLDSA65_CLEAN_crypto_sign_open(
             Concat(Arg(2), Arg(1)), Arg(3), sigLens)

\* the call that has just returned is a verifySignature that reached the
\* primitive with a public key of the declared length
Verified ==
    /\ call.op = "verifySignature"
    /\ Len(call.info) = 3
    /\ PrimCalls(VerifyFns) # {}
    /\ Arg(3).len = MLDSA65_PUBLICKEYBYTES

\* C5: verifySignature answers a message other than the signed one, a
\* signature with one byte altered, or another key pair's public key with the
\* boolean false and no error; a signature over the empty message verifies
\* true against the empty message and false against a 1-byte message.
C5_MismatchIsFalse ==
    /\ (/\ Verified
        /\ sigProv # NoProv
        /\ (Arg(1) # sigProv.msg \/ Arg(2) # sigProv.sig \/ Arg(3) # sigProv.pk))
       => (pending = "" /\ result = JSBoolean(FALSE))
    /\ (/\ Verified
        /\ sigProv # NoProv
        /\ sigProv.msg.len = 0
        /\ Arg(2) = sigProv.sig
        /\ Arg(3) = sigProv.pk)
       => (pending = "" /\ result = JSBoolean(Arg(1).len = 0))

\* the signature over the empty message, verified against a 1-byte message
C5_Witness ==
    /\ Verified
    /\ sigProv.msg.len = 0
    /\ Arg(1).len = 1
    /\ Arg(2) = sigProv.sig
    /\ Arg(3) = sigProv.pk
    /\ result = JSBoolean(FALSE)

\* C6: a successful generateKEMKeyPair / generateSignatureKeyPair, in both
\* backends, returns publicKey and secretKey Buffers of 1184/2400 bytes
\* (ML-KEM-768) and 1952/4000 bytes (ML-DSA-65), and the length fields of the
\* result are the lengths of those Buffers.
C6_KeyPairLengths ==
    (call.op \in {"generateKEMKeyPair", "generateSignatureKeyPair"} /\ result.kind = "object")
    => LET pub == heap[result.publicKey.id].len
           sec == heap[result.secretKey.id].len
       IN  /\ pub = result.publicKeyLength
           /\ sec = result.secretKeyLength
           /\ call.op = "generateKEMKeyPair"
              => (result.algorithm = "ML-KEM-768" /\ pub = 1184 /\ sec = 2400)
           /\ call.op = "generateSignatureKeyPair"
              => (result.algorithm = "ML-DSA-65" /\ pub = 1952 /\ sec = 4000)

\* an ML-DSA-65 key pair from the Registry Backend
C6_Witness ==
    /\ call = [backend |-> "registry", op |-> "generateSignatureKeyPair", info |-> <<>>]
    /\ result.kind = "object"
    /\ heap["secretKey"].len = 4000

\* the Buffers a returned value holds
BufIds(v) ==
    IF v.kind = "buffer" THEN {v.id}
    ELSE IF v.kind = "object" /\ "publicKey" \in DOMAIN v
         THEN {v.publicKey.id, v.secretKey.id}
         ELSE {}

\* every method call the caller can make in this state (none before it has
\* taken the outcome of the call that has returned)
CallsNow ==
    IF call # NoCall THEN {}
    ELSE UNION {UNION {{[backend |-> b, op |-> op, info |-> info] : info \in Args(op)} :
                       op \in Methods(b)} : b \in Backends}

\* did the key-generation or signing primitive report non-success in log
PrimitiveFailed(log) ==
    \E i \in DOMAIN log : log[i].fn \in KeypairFns \cup SignFns /\ log[i].status # 0

\* C7: whenever the primitive reports non-success in a generateKeyPair or in
\* signData, the call raises an error, returns null, and creates no Buffer.
C7_NoMaterialOnFailure ==
    /\ PrimitiveFailed(prim) => (result = JSNull /\ pending # "")
    /\ \A c \in CallsNow : \A o \in Handler(c.backend, c.op, c.info) :
           PrimitiveFailed(o.prim) => (o.ret = JSNull /\ o.exc # "" /\ o.heap = heap)

\* signing failed in the Fixed Backend
C7_Witness ==
    /\ call.op = "signData"
    /\ call.backend = "direct"
    /\ PrimitiveFailed(prim)
    /\ result = JSNull
    /\ pending = "Failed to sign data with ML-DSA-65"

\* C8: after any sequence of calls, the answer of verifySignature is the
\* verify primitive's answer for the bytes of (message, signature, publicKey)
\* it was given, whatever was signed, generated or verified before.
C8_VerifyStateless ==
    (/\ call.op = "verifySignature"
     /\ Len(call.info) = 3
     /\ PrimCalls(VerifyFns) # {})
    => /\ pending = ""
       /\ result \in {JSBoolean(s = 0) : s \in PrimitiveVerdicts(call.backend)}

\* the signature the last signData returned, verified against another message
C8_Witness ==
    /\ call.op = "verifySignature"
    /\ call.backend = "registry"
    /\ Len(call.info) = 3
    /\ sigProv # NoProv
    /\ Arg(2) = sigProv.sig
    /\ Arg(1) # sigProv.msg
    /\ result = JSBoolean(FALSE)

\* C9: no method call, in either backend, changes a Buffer the caller holds,
\* succeed or fail; every Buffer it returns is a new one, and it creates one
\* only in a call in which no primitive reported non-success and no error was
\* raised.
C9_NoCallerBufferWritten ==
    /\ \A c \in CallsNow : \A o \in Handler(c.backend, c.op, c.info) :
           /\ \A i \in DOMAIN heap : i \in DOMAIN o.heap /\ o.heap[i] = heap[i]
           /\ BufIds(o.ret) \cap DOMAIN heap = {}
           /\ DOMAIN o.heap \ DOMAIN heap = BufIds(o.ret)
           /\ BufIds(o.ret) # {}
              => (/\ o.exc = ""
                  /\ \A i \in DOMAIN o.prim :
                         "status" \in DOMAIN o.prim[i] => o.prim[i].status = 0)
    /\ (call.op = "signData" /\ result.kind = "buffer")
       => (/\ Arg(1) = sigProv.msg
           /\ heap["publicKey"] = sigProv.pk
           /\ \A c \in PrimCalls(SignFns) : c.status = 0)

\* signData has returned a signature; its message and key are as they were
C9_Witness ==
    /\ call.op = "signData"
    /\ call.backend = "registry"
    /\ result.kind = "buffer"
    /\ Arg(1).len > 0
    /\ heap["signature"].len = MLDSA65_SIGNATURE_BYTES

Range(f) == {f[i] : i \in DOMAIN f}

\* the algorithms generateKEMKeyPair / generateSignatureKeyPair of the
\* Registry Backend can be asked for by name and deliver
ServedKems ==
    {a \in Range(OQS_KEM_algs) :
        \E o \in LibOQSAddon_GenerateKEMKeyPair(heap, <<JSString(a)>>) :
            o.ret.kind = "object" /\ o.ret.algorithm = a}
ServedSigs ==
    {a \in Range(OQS_SIG_algs) :
        \E o \in LibOQSAddon_GenerateSignatureKeyPair(heap, <<JSString(a)>>) :
            o.ret.kind = "object" /\ o.ret.algorithm = a}

\* C10: the names getAvailableAlgorithms lists (kems and signatures) are
\* exactly the algorithms for which generateKeyPair succeeds in the Registry
\* Backend.
C10_ListedIsServed ==
    (call.op = "getAvailableAlgorithms" /\ result.kind = "object")
    => (Range(result.kems) = ServedKems /\ Range(result.signatures) = ServedSigs)

\* the algorithms the Fixed Backend is compiled for
CompiledIn == {"ML-KEM-768", "ML-DSA-65"}

\* C11: constructing the Fixed Backend's addon for an algorithm id other than
\* ML-KEM-768 and ML-DSA-65 fails, at construction, with UnsupportedAlgorithm:
\* no instance is returned.
C11_FixedRejectsAtConstruction ==
    (/\ call.backend = "direct"
     /\ call.op = "new"
     /\ Len(call.info) = 1
     /\ call.info[1].str \notin CompiledIn)
    => (result = JSNull /\ pending = "UnsupportedAlgorithm")

KemStubs == {"kemEncapsulate", "kemDecapsulate"}

\* the error a KEM stub raises
NotImplemented(op) ==
    IF op = "kemEncapsulate" THEN "KEMEncapsulate not yet implemented"
                             ELSE "KEMDecapsulate not yet implemented"

\* argument lists of up to two values: the caller's Buffers, a string, null
StubArgLists ==
    LET V == Held(Slots) \cup {JSString("ML-KEM-768"), JSNull}
    IN  {<<>>} \cup {<<v>> : v \in V} \cup {<<v, w>> : v \in V, w \in V}

\* C12: kemEncapsulate and kemDecapsulate always fail, in both backends, for
\* every argument list and after any sequence of calls: each raises its
\* 'not yet implemented' error and returns null, calls no primitive, and
\* creates no Buffer (no ciphertext, no shared secret).
C12_KemStubsAlwaysFail ==
    /\ call.op \in KemStubs
       => (/\ result = JSNull
           /\ pending = NotImplemented(call.op)
           /\ prim = <<>>
           /\ DOMAIN heap \subseteq Slots)
    /\ call = NoCall
       => \A b \in Backends : \A op \in KemStubs : \A info \in StubArgLists :
              Handler(b, op, info) = {Throw(NotImplemented(op), heap, <<>>)}

\* kemDecapsulate of the Fixed Backend, given the secret key of a generated
\* ML-KEM-768 pair and a second Buffer, has failed
C12_Witness ==
    /\ call = [backend |-> "direct", op |-> "kemDecapsulate",
               info |-> <<JSBuffer("secretKey"), JSBuffer("message")>>]
    /\ HoldsKeys("ML-KEM-768")
    /\ heap["secretKey"].len = MLKEM768_SECRETKEYBYTES
    /\ result = JSNull
    /\ pending = "KEMDecapsulate not yet implemented"

\* the instances a call obtained from fn (an OQS_*_new that did not return
\* NULL), and the calls it made to fn, as recorded in log
Obtained(log, fn) == Cardinality({i \in DOMAIN log : log[i].fn = fn /\ ~log[i].null})
Invoked(log, fn) == Cardinality({i \in DOMAIN log : log[i].fn = fn})

\* C13: when GenerateKEMKeyPair, GenerateSignatureKeyPair, SignData or
\* VerifySignature of the Registry Backend returns, by whichever exit path,
\* every instance it obtained from OQS_KEM_new / OQS_SIG_new has been released
\* by exactly one OQS_KEM_free / OQS_SIG_free.
C13_RegistryReleasesInstances ==
    (/\ call.backend = "registry"
     /\ call.op \in {"generateKEMKeyPair", "generateSignatureKeyPair",
                     "signData", "verifySignature"})
    => (/\ Invoked(prim, "OQS_KEM_free") = Obtained(prim, "OQS_KEM_new")
        /\ Invoked(prim, "OQS_SIG_free") = Obtained(prim, "OQS_SIG_new"))

====
